---- MODULE Spec2Model ----
(***************************************************************************)
(* Model of src/main.py: the batch pipeline that scores every essay of a   *)
(* directory against the five criterion prompts with one LLM call per      *)
(* (essay, criterion) pair, attaches the rubric description of the score   *)
(* and writes resultado_nota.json.                                         *)
(*                                                                         *)
(* Text is a sequence of one-character strings, so that strip, split,      *)
(* endswith, replace, float() and str(int()) are computed as Python        *)
(* computes them.  A finite float is the decimal fraction num / den with   *)
(* den a power of ten, kept in lowest such form; binary rounding of        *)
(* IEEE-754 is not modelled.  Reply text has no exponent and no            *)
(* underscore (the two parts of the float() grammar left out).             *)
(***************************************************************************)
EXTENDS Integers, Sequences, FiniteSets, TLC

VARIABLES
    \* --- the file system and the LLM (environment) ---
    prompts_dir,        \* DIRETORIO_PROMPTS.exists()
    arquivos_prompt,    \* names of the files present in DIRETORIO_PROMPTS
    redacao_dir,        \* DIRETORIO_REDACAO.exists()
    listagem,           \* os.listdir(DIRETORIO_REDACAO), in listing order
    arquivo_score,      \* ARQUIVO_SCORE: Ausente, Malformado or the JSON table
    saida_previa,       \* resultado_nota.json as it was before the run
    arquivo_saida,      \* resultado_nota.json now
    escritas,           \* how many times resultado_nota.json was opened for writing
    chamadas,           \* the LLM requests sent so far, each with its reply
    \* --- the program ---
    pc,                 \* position in the __main__ block
    exit_status,        \* process exit status, Rodando while it runs
    prompts,            \* carrega_prompt()
    redacoes,           \* ler_redacao(), in dict insertion order
    score_descricao,    \* ler_scores()
    avaliacao_geral,    \* list of finished essay records
    avaliacao_redacao,  \* record of the current essay (unbound before the loop)
    i_redacao,          \* index of the essay the outer for is at
    i_prompt,           \* index of the prompt the inner for is at
    \* --- single applications of the pure steps ---
    passo,              \* "entrada" before the step is applied, its outcome after
    arquivo,            \* a file name of the essays directory
    redacao_nome,       \* its display name, once derived
    score,              \* a finite score
    prefixo,            \* a criterion code
    tabela,             \* a rubric table
    s_score,            \* the lookup key made of the score, once made
    avaliacao           \* the criterion record built from them, once built

vars == << prompts_dir, arquivos_prompt, redacao_dir, listagem, arquivo_score,
           saida_previa, arquivo_saida, escritas, chamadas, pc, exit_status, prompts,
           redacoes, score_descricao, avaliacao_geral, avaliacao_redacao,
           i_redacao, i_prompt, passo, arquivo, redacao_nome, score, prefixo, tabela,
           s_score, avaliacao >>

ambiente == << prompts_dir, arquivos_prompt, redacao_dir, listagem,
               arquivo_score, saida_previa >>

saida == << arquivo_saida, escritas >>

carregado == << prompts, redacoes, score_descricao >>

puros == << passo, arquivo, redacao_nome, score, prefixo, tabela, s_score, avaliacao >>

-----------------------------------------------------------------------------
(* Text                                                                    *)

\* The characters str.strip() removes that occur in the replies.
Espacos == {" ", "\n", "\t"}

Digitos == <<"0", "1", "2", "3", "4", "5", "6", "7", "8", "9">>

EhDigito(c) == \E d \in 1..10 : Digitos[d] = c

ValorDigito(c) == (CHOOSE d \in 1..10 : Digitos[d] = c) - 1

Sufixo(s, n) == SubSeq(s, n, Len(s))

\* s.endswith(t)
EndsWith(s, t) ==
    /\ Len(s) >= Len(t)
    /\ SubSeq(s, Len(s) - Len(t) + 1, Len(s)) = t

\* s starts with t at position i
OcorreEm(s, t, i) ==
    /\ i + Len(t) - 1 <= Len(s)
    /\ SubSeq(s, i, i + Len(t) - 1) = t

\* t in s
Contem(s, t) == \E i \in 1..(Len(s) + 1) : OcorreEm(s, t, i)

\* s.replace(t, ""): every non-overlapping occurrence, left to right
RECURSIVE Replace(_, _)
Replace(s, t) ==
    IF s = <<>> THEN <<>>
    ELSE IF OcorreEm(s, t, 1) THEN Replace(Sufixo(s, Len(t) + 1), t)
    ELSE <<Head(s)>> \o Replace(Tail(s), t)

\* s.split(sep)[0]: the text before the first sep, all of s without one
RECURSIVE SplitPrimeiro(_, _)
SplitPrimeiro(s, sep) ==
    IF s = <<>> \/ Head(s) = sep THEN <<>>
    ELSE <<Head(s)>> \o SplitPrimeiro(Tail(s), sep)

RECURSIVE LStrip(_)
LStrip(s) ==
    IF s # <<>> /\ Head(s) \in Espacos THEN LStrip(Tail(s)) ELSE s

RECURSIVE RStrip(_)
RStrip(s) ==
    IF s # <<>> /\ s[Len(s)] \in Espacos
    THEN RStrip(SubSeq(s, 1, Len(s) - 1)) ELSE s

\* s.strip()
Strip(s) == RStrip(LStrip(s))

TXT == <<".", "t", "x", "t">>

-----------------------------------------------------------------------------
(* Numbers                                                                 *)

RECURSIVE Pot10(_)
Pot10(k) == IF k = 0 THEN 1 ELSE 10 * Pot10(k - 1)

\* The decimal fraction n / d (d a power of ten) in lowest such form.
RECURSIVE Fin(_, _)
Fin(n, d) ==
    IF d > 1 /\ n % 10 = 0 THEN Fin(n \div 10, d \div 10)
    ELSE [tipo |-> "fin", num |-> n, den |-> d]

NaN == [tipo |-> "nan"]

Inf(negativo) == [tipo |-> "inf", neg |-> negativo]

Zero == Fin(0, 1)

\* float + float, for the finite values the loop adds
Soma(a, b) == Fin(a.num * b.den + b.num * a.den, a.den * b.den)

\* the natural number a non-empty digit sequence writes
RECURSIVE ValorDigitos(_)
ValorDigitos(s) ==
    IF s = <<>> THEN 0
    ELSE 10 * ValorDigitos(SubSeq(s, 1, Len(s) - 1)) + ValorDigito(s[Len(s)])

SoDigitos(s) == \A i \in 1..Len(s) : EhDigito(s[i])

\* digits [ "." digits ] | "." digits, at least one digit in all
EhDecimal(s) ==
    \E p \in 1..(Len(s) + 1) :
        /\ p <= Len(s) => s[p] = "."
        /\ SoDigitos(SubSeq(s, 1, p - 1))
        /\ SoDigitos(Sufixo(s, p + 1))
        /\ Len(SubSeq(s, 1, p - 1)) + Len(Sufixo(s, p + 1)) >= 1

ValorDecimal(s) ==
    LET p == CHOOSE q \in 1..(Len(s) + 1) :
                 /\ q <= Len(s) => s[q] = "."
                 /\ SoDigitos(SubSeq(s, 1, q - 1))
                 /\ SoDigitos(Sufixo(s, q + 1))
        inteira == SubSeq(s, 1, p - 1)
        fracao  == Sufixo(s, p + 1)
    IN  Fin(ValorDigitos(inteira \o fracao), Pot10(Len(fracao)))

Negado(v) ==
    CASE v.tipo = "fin" -> Fin(-v.num, v.den)
      [] v.tipo = "inf" -> Inf(~v.neg)
      [] OTHER -> v

\* float(s) of an unsigned literal; Erro is ValueError
Erro == [tipo |-> "erro"]

FloatSemSinal(s) ==
    IF s = <<"n", "a", "n">> THEN NaN
    ELSE IF s = <<"i", "n", "f">>
            \/ s = <<"i", "n", "f", "i", "n", "i", "t", "y">> THEN Inf(FALSE)
    ELSE IF EhDecimal(s) THEN ValorDecimal(s)
    ELSE Erro

\* float(s): surrounding whitespace ignored, one optional sign
Float(s) ==
    LET t == Strip(s)
    IN  IF t # <<>> /\ Head(t) \in {"+", "-"}
        THEN LET v == FloatSemSinal(Tail(t))
             IN  IF Head(t) = "-" THEN Negado(v) ELSE v
        ELSE FloatSemSinal(t)

\* int(x) that rounds down
IntDe_piso(x) == x.num \div x.den

\* int(x) of a finite float: the fraction is dropped, toward zero

IntDe(x) == IF x.num >= 0 THEN x.num \div x.den ELSE -((-x.num) \div x.den)

\* str(n) of an integer
RECURSIVE StrNat(_)
StrNat(n) ==
    IF n < 10 THEN <<Digitos[n + 1]>>
    ELSE StrNat(n \div 10) \o <<Digitos[(n % 10) + 1]>>

Str(n) == IF n < 0 THEN <<"-">> \o StrNat(-n) ELSE StrNat(n)

-----------------------------------------------------------------------------
(* Constants of the program                                                *)

ARQIVOS_PROMPTS ==
    << <<"c", "1", "_", "e", "s", "c", "r", "i", "t", "a", "_",
         "f", "o", "r", "m", "a", "l", ".", "t", "x", "t">>,
       <<"c", "2", "_", "t", "e", "m", "a", ".", "t", "x", "t">>,
       <<"c", "3", "_", "a", "r", "g", "u", "m", "e", "n", "t", "a",
         "c", "a", "o", ".", "t", "x", "t">>,
       <<"c", "4", "_", "c", "o", "e", "s", "a", "o", ".", "t", "x", "t">>,
       <<"c", "5", "_", "i", "n", "t", "e", "r", "v", "e", "n", "c", "a", "o",
         ".", "t", "x", "t">> >>

NomesPrompt == {ARQIVOS_PROMPTS[i] : i \in 1..Len(ARQIVOS_PROMPTS)}

\* "Descrição não encontrada para "
MsgNaoEncontrada ==
    <<"D", "e", "s", "c", "r", "i", "ç", "ã", "o", " ", "n", "ã", "o", " ",
      "e", "n", "c", "o", "n", "t", "r", "a", "d", "a", " ", "p", "a", "r",
      "a", " ">>

MsgEm == <<" ", "e", "m", " ">>

-----------------------------------------------------------------------------
(* Values                                                                  *)

Ausente == [tipo |-> "ausente"]

Malformado == [tipo |-> "malformado"]

Nenhum == [tipo |-> "nenhum"]

\* a name the program has not bound yet
Indefinida == [tipo |-> "indefinida"]

\* the exit status of the process: none while it runs
Rodando == [tipo |-> "rodando"]

Saiu(codigo) == [tipo |-> "saiu", codigo |-> codigo]

\* a file holding the JSON text of dados
Json(dados) == [tipo |-> "json", dados |-> dados]

\* an outcome of a function: a returned value or a raised exception
Retorno(v) == [tipo |-> "retorno", valor |-> v]

Excecao(nome) == [tipo |-> "excecao", nome |-> nome]

\* the content of a text file, one text per file
Conteudo(nome) == <<"#">> \o nome

\* what the chat model does with one request: a reply text, or a failure of
\* the call itself (connection, authentication, rate limit)
Texto(t) == [tipo |-> "texto", texto |-> t]

FalhaChamada == [tipo |-> "falha"]

-----------------------------------------------------------------------------
(* Functions of main.py                                                    *)

\* ler_arquivo(DIRETORIO_PROMPTS / path)
ler_system_prompt(presentes, path) ==
    IF path \in presentes THEN Retorno(Conteudo(path))
    ELSE Excecao("FileNotFoundError")

\* carrega_prompt() that steps over a prompt file that is not there
carrega_prompt_pula_ausentes(dir, presentes) ==
    Retorno(SelectSeq(
        [i \in 1..Len(ARQIVOS_PROMPTS) |->
            [prefixo |-> SplitPrimeiro(ARQIVOS_PROMPTS[i], "_"),
             prompt  |-> Conteudo(ARQIVOS_PROMPTS[i])]],
        LAMBDA p : \E f \in presentes : Conteudo(f) = p.prompt))

carrega_prompt(dir, presentes) ==
    IF ~dir THEN Excecao("FileNotFoundError")
    ELSE IF \E i \in 1..Len(ARQIVOS_PROMPTS) :
                ler_system_prompt(presentes, ARQIVOS_PROMPTS[i]).tipo = "excecao"
    THEN Excecao("FileNotFoundError")
    ELSE Retorno([i \in 1..Len(ARQIVOS_PROMPTS) |->
            [prefixo |-> SplitPrimeiro(ARQIVOS_PROMPTS[i], "_"),
             prompt  |-> ler_system_prompt(presentes, ARQIVOS_PROMPTS[i]).valor]])

\* ler_redacao(): the .txt files of the listing, in listing order
ler_redacao(dir, lista) ==
    IF ~dir THEN Excecao("FileNotFoundError")
    ELSE Retorno([i \in 1..Len(SelectSeq(lista, LAMBDA f : EndsWith(f, TXT))) |->
            LET f == SelectSeq(lista, LAMBDA g : EndsWith(g, TXT))[i]
            IN  [arquivo |-> f, conteudo |-> Conteudo(f)]])

\* ler_scores()
ler_scores(arq) ==
    IF arq = Ausente THEN Excecao("FileNotFoundError")
    ELSE IF arq = Malformado THEN Excecao("JSONDecodeError")
    ELSE Retorno(arq.dados)

\* NumberOutputParser.parse(text)
parse(text) ==
    IF Float(text) = Erro THEN Excecao("OutputParserException")
    ELSE Retorno(Float(text))

\* the requests one chain.invoke sends
invoke_repete_nao_numerica(prompt, redacao, resposta) ==
    LET req == [system |-> prompt, user |-> redacao, resposta |-> resposta]
    IN  IF resposta.tipo = "texto" /\ parse(resposta.texto).tipo = "excecao"
        THEN <<req, req>> ELSE <<req>>

invoke(prompt, redacao, resposta) ==
    << [system |-> prompt, user |-> redacao, resposta |-> resposta] >>

\* avaliar_redacao() without the except clause
avaliar_redacao_sem_except(resposta) ==
    IF resposta.tipo = "falha" THEN Excecao("APIError")
    ELSE parse(resposta.texto)

\* avaliar_redacao() with a bare except
avaliar_redacao_except_geral(resposta) ==
    IF resposta.tipo = "falha" THEN Retorno(Zero)
    ELSE IF parse(resposta.texto).tipo = "excecao" THEN Retorno(Zero)
    ELSE parse(resposta.texto)

\* avaliar_redacao(prompt, redacao), given what the model did with the request
avaliar_redacao(resposta) ==
    IF resposta.tipo = "falha" THEN Excecao("APIError")
    ELSE IF parse(resposta.texto).tipo = "excecao" THEN Retorno(Zero)
    ELSE parse(resposta.texto)

\* score_descricao.get(prefixo, {}).get(_s_score, f"Descrição ... em ...")
Descricao(tab, pref, chave) ==
    IF pref \in DOMAIN tab /\ chave \in DOMAIN tab[pref]
    THEN tab[pref][chave]
    ELSE MsgNaoEncontrada \o chave \o MsgEm \o pref

\* _s_score = str(int(score))
Chave(sc) == Str(IntDe(sc))

\* the _avaliacao record of one criterion, for a finite score
Avaliacao(tab, pref, sc) ==
    [criterio  |-> pref,
     nota      |-> sc,
     descricao |-> Descricao(tab, pref, Chave(sc))]

\* the new record of an essay
NovaAvaliacao(arq) ==
    [redacao_nome  |-> Replace(arq, TXT),
     nota_criterio |-> Zero,
     avaliacoes    |-> <<>>]

\* one criterion entered into the record, the total left as it was
RegistraAvaliacao_sem_soma(reg, tab, pref, sc) ==
    [reg EXCEPT !.avaliacoes = Append(@, Avaliacao(tab, pref, sc))]

\* one criterion entered into the record of the essay
RegistraAvaliacao(reg, tab, pref, sc) ==
    [reg EXCEPT !.nota_criterio = Soma(@, sc),
                !.avaliacoes = Append(@, Avaliacao(tab, pref, sc))]

\* the finished record put in front of the others
AdicionaRegistro_na_frente(geral, reg) == <<reg>> \o geral

\* avaliacao_geral.append(avaliacao_redacao)
AdicionaRegistro(geral, reg) == Append(geral, reg)

-----------------------------------------------------------------------------
(* The environments and replies explored                                   *)

\* at most this many entries in the essays directory
MaxArquivos == 2

\* at most this many of the five prompt files missing
MaxAusentes == 1

NomesArquivo ==
    { <<"r", "1", ".", "t", "x", "t">>,
      <<"r", "2", ".", "t", "x", "t">>,
      <<"n", "o", "t", "a", "s", ".", "m", "d">> }

Listagens ==
    UNION { { l \in [1..n -> NomesArquivo] :
                \A i, j \in 1..n : i # j => l[i] # l[j] } : n \in 0..MaxArquivos }

NotaMinima == <<"N", "o", "t", "a", " ", "m", "í", "n", "i", "m", "a">>

BomDominio == <<"B", "o", "m", " ", "d", "o", "m", "í", "n", "i", "o">>

SemChaves == [k \in {} |-> <<>>]

\* a rubric with both keys, one key, no key, and no entry for c5
TabelaPadrao ==
    (<<"c", "1">> :> ((<<"0">> :> NotaMinima) @@ (<<"8", "0">> :> BomDominio)))
    @@ (<<"c", "2">> :> (<<"8", "0">> :> BomDominio))
    @@ (<<"c", "3">> :> (<<"0">> :> NotaMinima))
    @@ (<<"c", "4">> :> SemChaves)

\* an output file left by an earlier run
SaidaAntiga ==
    Json(<< [redacao_nome |-> <<"v">>, nota_criterio |-> Zero, avaliacoes |-> <<>>] >>)

\* what the model may do with a request
RespostasLLM ==
    { Texto(<<" ", "8", "0", ".", "9", "\n">>),
      Texto(<<"N", "o", "t", "a", ":", " ", "8", "0">>),
      Texto(<<"n", "a", "n">>),
      Texto(<<"-", "i", "n", "f">>),
      FalhaChamada }

-----------------------------------------------------------------------------
(* The run of the __main__ block                                           *)

Parado ==
    /\ passo = "fora"
    /\ arquivo = <<>>
    /\ redacao_nome = <<>>
    /\ score = Zero
    /\ prefixo = <<>>
    /\ tabela = SemChaves
    /\ s_score = <<>>
    /\ avaliacao = Nenhum

Init ==
    /\ prompts_dir \in BOOLEAN
    /\ arquivos_prompt \in
          IF prompts_dir
          THEN { a \in SUBSET NomesPrompt :
                   Cardinality(NomesPrompt \ a) <= MaxAusentes }
          ELSE { {} }
    /\ redacao_dir \in BOOLEAN
    /\ listagem \in IF redacao_dir THEN Listagens ELSE { <<>> }
    /\ arquivo_score \in {Ausente, Malformado, Json(TabelaPadrao)}
    /\ saida_previa \in {Ausente, SaidaAntiga}
    /\ arquivo_saida = saida_previa
    /\ escritas = 0
    /\ chamadas = <<>>
    /\ pc = "checagens"
    /\ exit_status = Rodando
    /\ prompts = Indefinida
    /\ redacoes = Indefinida
    /\ score_descricao = Indefinida
    /\ avaliacao_geral = Indefinida
    /\ avaliacao_redacao = Indefinida
    /\ i_redacao = 0
    /\ i_prompt = 0
    /\ Parado

\* an exception nothing catches: traceback, exit status 1
Aborta ==
    /\ pc' = "excecao"
    /\ exit_status' = Saiu(1)

\* lines 161-169: the three existence checks, sys.exit(1) on the first missing
ChecaPrecondicoes ==
    /\ pc = "checagens"
    /\ IF ~prompts_dir \/ ~redacao_dir \/ arquivo_score = Ausente
       THEN /\ pc' = "sys_exit"
            /\ exit_status' = Saiu(1)
       ELSE /\ pc' = "carrega_prompt"
            /\ UNCHANGED exit_status
    /\ UNCHANGED << ambiente, saida, chamadas, carregado,
                    avaliacao_geral, avaliacao_redacao, i_redacao, i_prompt,
                    puros >>

\* line 172
CarregaPrompt ==
    /\ pc = "carrega_prompt"
    /\ LET r == carrega_prompt(prompts_dir, arquivos_prompt)
       IN  IF r.tipo = "excecao"
           THEN Aborta /\ UNCHANGED prompts
           ELSE /\ prompts' = r.valor
                /\ pc' = "ler_redacao"
                /\ UNCHANGED exit_status
    /\ UNCHANGED << ambiente, saida, chamadas, redacoes,
                    score_descricao, avaliacao_geral, avaliacao_redacao,
                    i_redacao, i_prompt, puros >>

\* line 173
LerRedacao ==
    /\ pc = "ler_redacao"
    /\ LET r == ler_redacao(redacao_dir, listagem)
       IN  IF r.tipo = "excecao"
           THEN Aborta /\ UNCHANGED redacoes
           ELSE /\ redacoes' = r.valor
                /\ pc' = "ler_scores"
                /\ UNCHANGED exit_status
    /\ UNCHANGED << ambiente, saida, chamadas, prompts,
                    score_descricao, avaliacao_geral, avaliacao_redacao,
                    i_redacao, i_prompt, puros >>

\* lines 174-176
LerScores ==
    /\ pc = "ler_scores"
    /\ LET r == ler_scores(arquivo_score)
       IN  IF r.tipo = "excecao"
           THEN Aborta /\ UNCHANGED << score_descricao, avaliacao_geral, i_redacao >>
           ELSE /\ score_descricao' = r.valor
                /\ avaliacao_geral' = <<>>
                /\ i_redacao' = 1
                /\ pc' = "for_redacao"
                /\ UNCHANGED exit_status
    /\ UNCHANGED << ambiente, saida, chamadas, prompts, redacoes,
                    avaliacao_redacao, i_prompt, puros >>

\* lines 178-184: the next essay, its record started
IniciaRedacao ==
    /\ pc = "for_redacao"
    /\ i_redacao <= Len(redacoes)
    /\ avaliacao_redacao' = NovaAvaliacao(redacoes[i_redacao].arquivo)
    /\ i_prompt' = 1
    /\ pc' = "for_prompt"
    /\ UNCHANGED << ambiente, saida, chamadas, carregado,
                    avaliacao_geral, i_redacao, exit_status, puros >>

\* lines 187-204: one criterion of the current essay
AvaliaCriterio ==
    /\ pc = "for_prompt"
    /\ i_prompt <= Len(prompts)
    /\ \E resposta \in RespostasLLM :
         LET prompt == prompts[i_prompt]
             r == avaliar_redacao(resposta)
         IN  /\ chamadas' = chamadas \o
                    invoke(prompt.prompt, redacoes[i_redacao].conteudo, resposta)
             /\ IF r.tipo = "excecao" \/ r.valor.tipo # "fin"
                THEN \* the call raised, or int(score) did (nan, inf)
                     Aborta /\ UNCHANGED << avaliacao_redacao, i_prompt >>
                ELSE /\ avaliacao_redacao' =
                          RegistraAvaliacao(avaliacao_redacao, score_descricao,
                                            prompt.prefixo, r.valor)
                     /\ i_prompt' = i_prompt + 1
                     /\ UNCHANGED << pc, exit_status >>
    /\ UNCHANGED << ambiente, saida, carregado, avaliacao_geral,
                    i_redacao, puros >>

\* lines 207-210: the record of the essay joins the result
AdicionaRedacao ==
    /\ pc = "for_prompt"
    /\ i_prompt > Len(prompts)
    /\ avaliacao_geral' = AdicionaRegistro(avaliacao_geral, avaliacao_redacao)
    /\ i_redacao' = i_redacao + 1
    /\ pc' = "for_redacao"
    /\ UNCHANGED << ambiente, saida, chamadas, carregado,
                    avaliacao_redacao, i_prompt, exit_status, puros >>

\* line 178, no essay left
FimRedacoes ==
    /\ pc = "for_redacao"
    /\ i_redacao > Len(redacoes)
    /\ pc' = "print_ultima"
    /\ UNCHANGED << ambiente, saida, chamadas, carregado,
                    avaliacao_geral, avaliacao_redacao, i_redacao, i_prompt,
                    exit_status, puros >>

\* line 213: print(avaliacao_redacao), a NameError when no essay bound it
ImprimeUltima ==
    /\ pc = "print_ultima"
    /\ IF avaliacao_redacao = Indefinida
       THEN Aborta
       ELSE pc' = "escreve_json" /\ UNCHANGED exit_status
    /\ UNCHANGED << ambiente, saida, chamadas, carregado,
                    avaliacao_geral, avaliacao_redacao, i_redacao, i_prompt,
                    puros >>

\* lines 216-217 and the end of the script
EscreveJson ==
    /\ pc = "escreve_json"
    /\ arquivo_saida' = Json(avaliacao_geral)
    /\ escritas' = escritas + 1
    /\ pc' = "fim"
    /\ exit_status' = Saiu(0)
    /\ UNCHANGED << ambiente, chamadas, carregado, avaliacao_geral,
                    avaliacao_redacao, i_redacao, i_prompt, puros >>

Next ==
    \/ ChecaPrecondicoes
    \/ CarregaPrompt
    \/ LerRedacao
    \/ LerScores
    \/ IniciaRedacao
    \/ AvaliaCriterio
    \/ AdicionaRedacao
    \/ FimRedacoes
    \/ ImprimeUltima
    \/ EscreveJson

Spec == Init /\ [][Next]_vars

-----------------------------------------------------------------------------
(* One file name through ler_redacao and the loop head                     *)

\* at most this many pieces before the extension of a file name
MaxPecas == 2

Pecas == { <<"a">>, <<"b">>, TXT, <<".">>, <<"t">> }

Extensoes == { TXT, <<".", "m", "d">> }

RECURSIVE Junta(_)
Junta(ps) == IF ps = <<>> THEN <<>> ELSE Head(ps) \o Junta(Tail(ps))

NomesDeTeste ==
    { Junta(ps) \o e : ps \in UNION { [1..n -> Pecas] : n \in 0..MaxPecas },
                       e \in Extensoes }

\* the program is not running
SemExecucao ==
    /\ prompts_dir = TRUE
    /\ arquivos_prompt = NomesPrompt
    /\ redacao_dir = TRUE
    /\ listagem = <<>>
    /\ arquivo_score = Json(TabelaPadrao)
    /\ saida_previa = Ausente
    /\ arquivo_saida = Ausente
    /\ escritas = 0
    /\ chamadas = <<>>
    /\ pc = "fora"
    /\ exit_status = Rodando
    /\ prompts = Indefinida
    /\ redacoes = Indefinida
    /\ score_descricao = Indefinida
    /\ avaliacao_geral = Indefinida
    /\ avaliacao_redacao = Indefinida
    /\ i_redacao = 0
    /\ i_prompt = 0

programa == << ambiente, saida, chamadas, pc, exit_status, carregado,
               avaliacao_geral, avaliacao_redacao, i_redacao, i_prompt >>

InitNome ==
    /\ SemExecucao
    /\ passo = "entrada"
    /\ arquivo \in NomesDeTeste
    /\ redacao_nome = <<>>
    /\ score = Zero
    /\ prefixo = <<>>
    /\ tabela = SemChaves
    /\ s_score = <<>>
    /\ avaliacao = Nenhum

\* line 81: a name without the .txt ending is no essay
IgnoraArquivo ==
    /\ passo = "entrada"
    /\ ~EndsWith(arquivo, TXT)
    /\ passo' = "ignorado"
    /\ UNCHANGED << programa, arquivo, redacao_nome, score, prefixo, tabela,
                    s_score, avaliacao >>

\* lines 81-84 and 181-182: the essay is loaded and its record named
DerivaNome ==
    /\ passo = "entrada"
    /\ EndsWith(arquivo, TXT)
    /\ redacao_nome' = NovaAvaliacao(arquivo).redacao_nome
    /\ passo' = "nomeado"
    /\ UNCHANGED << programa, arquivo, score, prefixo, tabela, s_score, avaliacao >>

NextNome == IgnoraArquivo \/ DerivaNome

SpecNome == InitNome /\ [][NextNome]_vars

-----------------------------------------------------------------------------
(* One finite score through lines 191-204                                  *)

\* scores n and n / 10 for every n of at most this size
MaxMantissa == 125

CodigosDeTeste == { <<"c", "1">>, <<"c", "4">>, <<"c", "5">> }

Ruim == <<"R", "u", "i", "m">>

\* a rubric with one-digit, two-digit and negative keys
TabelaPequena ==
    (<<"c", "1">> :> ((<<"0">> :> NotaMinima) @@ (<<"8">> :> BomDominio)
                       @@ (<<"1", "2">> :> BomDominio) @@ (<<"-", "1">> :> Ruim)))
    @@ (<<"c", "4">> :> SemChaves)

InitLookup ==
    /\ SemExecucao
    /\ passo = "entrada"
    /\ arquivo = <<>>
    /\ redacao_nome = <<>>
    /\ score \in { Fin(n, d) : n \in (-MaxMantissa)..MaxMantissa, d \in {1, 10} }
    /\ prefixo \in CodigosDeTeste
    /\ tabela \in { TabelaPadrao, TabelaPequena }
    /\ s_score = <<>>
    /\ avaliacao = Nenhum

\* lines 191-202
ResolveDescricao ==
    /\ passo = "entrada"
    /\ s_score' = Chave(score)
    /\ avaliacao' = Avaliacao(tabela, prefixo, score)
    /\ passo' = "resolvido"
    /\ UNCHANGED << programa, arquivo, redacao_nome, score, prefixo, tabela >>

NextLookup == ResolveDescricao

SpecLookup == InitLookup /\ [][NextLookup]_vars

-----------------------------------------------------------------------------
(* Properties                                                              *)

NCriterios == Len(ARQIVOS_PROMPTS)

\* the essay and the criterion the k-th request of a run belongs to
RedacaoDe(k) == ((k - 1) \div NCriterios) + 1

CriterioDe(k) == ((k - 1) % NCriterios) + 1

\* the record of the e-th essay, finished or in the making
RegistroDe(e) ==
    IF e <= Len(avaliacao_geral) THEN avaliacao_geral[e] ELSE avaliacao_redacao

EhTxt(f) == EndsWith(f, TXT)

Terminal == pc \in {"fim", "excecao", "sys_exit"}

TudoPresente ==
    /\ prompts_dir
    /\ arquivos_prompt = NomesPrompt
    /\ redacao_dir
    /\ arquivo_score.tipo # "ausente"

NaoNumerica(r) == r.tipo = "texto" /\ Float(r.texto).tipo = "erro"

Numerica(r) == r.tipo = "texto" /\ Float(r.texto).tipo # "erro"

\* C1: with every input present, a well-formed rubric and no .txt file in the
\* essays directory, the run ends normally having written an empty array.
CE_C1_SemRedacoesGravaListaVazia ==
    ( /\ Terminal
      /\ TudoPresente
      /\ arquivo_score.tipo = "json"
      /\ SelectSeq(listagem, EhTxt) = <<>> )
    => /\ pc = "fim"
       /\ exit_status = Saiu(0)
       /\ arquivo_saida = Json(<<>>)

\* C2: when the prompts directory, one of the five prompt files, the essays
\* directory or the rubric file is absent at startup, the run gets no further
\* than loading the prompts, ends with exit status 1, sends no request to the
\* model and leaves the output file as it was.
T_C2_FaltaNaPartidaEncerraSemEfeito ==
    ~TudoPresente =>
        /\ pc \in {"checagens", "carrega_prompt", "sys_exit", "excecao"}
        /\ exit_status = IF Terminal THEN Saiu(1) ELSE Rodando
        /\ ~Terminal => ENABLED Next
        /\ chamadas = <<>>
        /\ escritas = 0
        /\ arquivo_saida = saida_previa

W_C2_PromptAusenteAborta ==
    /\ prompts_dir /\ redacao_dir /\ arquivo_score.tipo = "json"
    /\ arquivos_prompt # NomesPrompt
    /\ saida_previa = SaidaAntiga
    /\ pc = "excecao"

\* C3: a pair whose reply is not a number gets nota 0.0 and never stops the
\* run: the run goes on to the next pair (the only requests a run stops at
\* are a failed call and a reply that parses to nan or an infinity), and a run
\* that reaches its end has evaluated every pair and written the records,
\* however many replies were not numbers.
T_C3_NaoNumericaViraZeroEContinua ==
    /\ \A k \in 1..Len(chamadas) :
          NaoNumerica(chamadas[k].resposta) =>
              /\ ~(pc = "excecao" /\ k = Len(chamadas))
              /\ Len(RegistroDe(RedacaoDe(k)).avaliacoes) >= CriterioDe(k)
              /\ RegistroDe(RedacaoDe(k)).avaliacoes[CriterioDe(k)].nota = Zero
    /\ (pc = "excecao" /\ chamadas # <<>>) =>
          LET r == chamadas[Len(chamadas)].resposta
          IN  r.tipo = "falha" \/ (Numerica(r) /\ Float(r.texto).tipo # "fin")
    /\ pc \in {"for_redacao", "for_prompt", "escreve_json"} => ENABLED Next
    /\ pc = "fim" =>
          /\ Len(chamadas) = NCriterios * Len(redacoes)
          /\ escritas = 1
          /\ arquivo_saida = Json(avaliacao_geral)
          /\ Len(avaliacao_geral) = Len(redacoes)

W_C3_RunCompletaComNaoNumericas ==
    /\ pc = "fim"
    /\ Len(redacoes) = 2
    /\ \E k \in 1..Len(chamadas) : NaoNumerica(chamadas[k].resposta)
    /\ \E k \in 1..Len(chamadas) : Numerica(chamadas[k].resposta)
    /\ NaoNumerica(chamadas[1].resposta)

RECURSIVE SomaNotas(_)
SomaNotas(avs) ==
    IF avs = <<>> THEN Zero
    ELSE Soma(SomaNotas(SubSeq(avs, 1, Len(avs) - 1)), avs[Len(avs)].nota)

TotalCoerente(reg) == reg.nota_criterio = SomaNotas(reg.avaliacoes)

\* C4: the record of the essay being scored, every finished record and every
\* record written to the output file has nota_criterio equal to the sum of
\* the nota values of its avaliacoes.
T_C4_TotalIgualSomaDasNotas ==
    /\ i_redacao >= 1 =>
          \A e \in 1..Len(avaliacao_geral) : TotalCoerente(avaliacao_geral[e])
    /\ avaliacao_redacao # Indefinida => TotalCoerente(avaliacao_redacao)
    /\ escritas >= 1 =>
          \A e \in 1..Len(arquivo_saida.dados) :
              TotalCoerente(arquivo_saida.dados[e])

W_C4_TotalComZeroDeFallback ==
    /\ pc = "fim"
    /\ \E e \in 1..Len(arquivo_saida.dados) :
          LET reg == arquivo_saida.dados[e]
          IN  /\ Len(reg.avaliacoes) = NCriterios
              /\ reg.nota_criterio.num > 0
              /\ \E c \in 1..NCriterios : reg.avaliacoes[c].nota = Zero
              /\ \E c \in 1..NCriterios : reg.avaliacoes[c].nota # Zero
    /\ \E e \in 1..Len(arquivo_saida.dados) :
          arquivo_saida.dados[e].nota_criterio = Zero

\* C5: a reply that parses as a float never stops the run, whatever the
\* value: the pair gets a record carrying that value.
CE_C5_TodoFloatEAceito ==
    \A k \in 1..Len(chamadas) :
        Numerica(chamadas[k].resposta) =>
            /\ ~(pc = "excecao" /\ k = Len(chamadas))
            /\ Len(RegistroDe(RedacaoDe(k)).avaliacoes) >= CriterioDe(k)
            /\ RegistroDe(RedacaoDe(k)).avaliacoes[CriterioDe(k)].nota
                   = Float(chamadas[k].resposta.texto)

\* C6: the output file is written at most once, and only at the end of a run
\* that evaluated every pair; a model call that fails is the last request of
\* the run, which stops there with the output file as it was before the run.
T_C6_SaidaSoAoFimDoLaco ==
    /\ escritas <= 1
    /\ escritas = 0 => arquivo_saida = saida_previa
    /\ escritas = 1 =>
          /\ pc = "fim"
          /\ arquivo_saida = Json(avaliacao_geral)
          /\ Len(avaliacao_geral) = Len(redacoes)
          /\ Len(chamadas) = NCriterios * Len(redacoes)
    /\ \A k \in 1..Len(chamadas) :
          chamadas[k].resposta.tipo = "falha" =>
              /\ k = Len(chamadas)
              /\ pc = "excecao"
              /\ exit_status = Saiu(1)
              /\ escritas = 0
              /\ arquivo_saida = saida_previa

W_C6_FalhaDepoisDeUmaRedacaoPronta ==
    /\ pc = "excecao"
    /\ Len(chamadas) > NCriterios
    /\ chamadas[Len(chamadas)].resposta.tipo = "falha"
    /\ Len(avaliacao_geral) = 1
    /\ saida_previa = SaidaAntiga
    /\ arquivo_saida = SaidaAntiga

CodigosEsperados ==
    << <<"c", "1">>, <<"c", "2">>, <<"c", "3">>, <<"c", "4">>, <<"c", "5">> >>

SemExtensao(f) == SubSeq(f, 1, Len(f) - Len(TXT))

\* C7: the array written by a run that completes has one record per loaded
\* essay, in the loader's order, each with five avaliacoes whose criterio
\* codes are c1, c2, c3, c4, c5 in that order.
T_C7_UmRegistroPorRedacaoEmOrdem ==
    pc = "fim" =>
        LET dados == arquivo_saida.dados
        IN  /\ Len(dados) = Len(redacoes)
            /\ redacoes = [e \in 1..Len(SelectSeq(listagem, EhTxt)) |->
                             [arquivo  |-> SelectSeq(listagem, EhTxt)[e],
                              conteudo |-> Conteudo(SelectSeq(listagem, EhTxt)[e])]]
            /\ \A e \in 1..Len(dados) :
                  /\ dados[e].redacao_nome = SemExtensao(redacoes[e].arquivo)
                  /\ [c \in 1..Len(dados[e].avaliacoes) |->
                         dados[e].avaliacoes[c].criterio] = CodigosEsperados

W_C7_DuasRedacoesGravadas ==
    /\ pc = "fim"
    /\ Len(arquivo_saida.dados) = 2
    /\ arquivo_saida.dados[1].redacao_nome = <<"r", "2">>
    /\ arquivo_saida.dados[2].redacao_nome = <<"r", "1">>

\* the integer a decimal string writes
ValorChave(k) ==
    IF Head(k) = "-" THEN -ValorDigitos(Tail(k)) ELSE ValorDigitos(k)

\* the way str() writes an integer: digits, no leading zero, "-" only before
\* a number that is not zero
ChaveCanonica(k) ==
    LET d == IF k # <<>> /\ Head(k) = "-" THEN Tail(k) ELSE k
    IN  /\ d # <<>>
        /\ SoDigitos(d)
        /\ Len(d) > 1 => Head(d) # "0"
        /\ d = <<"0">> => k = d

\* n is s with its fraction dropped
TruncaParaZero(n, s) ==
    IF s.num >= 0
    THEN n >= 0 /\ n * s.den <= s.num /\ s.num < (n + 1) * s.den
    ELSE n <= 0 /\ (n - 1) * s.den < s.num /\ s.num <= n * s.den

\* C8: the lookup key of a finite score is the decimal string of the score
\* truncated toward zero; the description is the rubric's entry for the
\* criterion and the key when there is one, and otherwise (the key or the
\* criterion not in the rubric) a text that contains the key and the criterion.
T_C8_ChaveTruncadaEDescricao ==
    passo = "resolvido" =>
        /\ ChaveCanonica(s_score)
        /\ TruncaParaZero(ValorChave(s_score), score)
        /\ avaliacao.criterio = prefixo
        /\ avaliacao.nota = score
        /\ IF prefixo \in DOMAIN tabela
           THEN IF s_score \in DOMAIN tabela[prefixo]
                THEN avaliacao.descricao = tabela[prefixo][s_score]
                ELSE /\ Contem(avaliacao.descricao, s_score)
                     /\ Contem(avaliacao.descricao, prefixo)
           ELSE /\ Contem(avaliacao.descricao, s_score)
                /\ Contem(avaliacao.descricao, prefixo)

W_C8_NegativaFracionariaDaZero ==
    /\ passo = "resolvido"
    /\ score = Fin(-5, 10)
    /\ s_score = <<"0">>
    /\ prefixo = <<"c", "1">>
    /\ tabela = TabelaPequena
    /\ avaliacao.descricao = NotaMinima

\* C9: the requests sent are, in order, those of the pairs (essay, criterion)
\* essay by essay and c1..c5 within an essay, one request per pair; a run that
\* completes has sent five per essay.
T_C9_UmaChamadaPorParEmOrdem ==
    /\ \A k \in 1..Len(chamadas) :
          /\ RedacaoDe(k) <= Len(redacoes)
          /\ chamadas[k].system = prompts[CriterioDe(k)].prompt
          /\ chamadas[k].user = redacoes[RedacaoDe(k)].conteudo
    /\ pc = "for_prompt" =>
          Len(chamadas) = NCriterios * (i_redacao - 1) + (i_prompt - 1)
    /\ pc = "fim" =>
          /\ Len(prompts) = NCriterios
          /\ Len(chamadas) = NCriterios * Len(redacoes)

W_C9_DezChamadasComNaoNumerica ==
    /\ pc = "fim"
    /\ Len(chamadas) = 2 * NCriterios
    /\ NaoNumerica(chamadas[3].resposta)
    /\ Numerica(chamadas[4].resposta)

\* C10: the display name of an essay file is the file name without its final
\* ".txt", every other character kept, so that no other essay file name gives
\* the same display name.
CE_C10_SoAExtensaoFinalSai ==
    passo = "nomeado" =>
        /\ redacao_nome = SemExtensao(arquivo)
        /\ \A g \in NomesDeTeste :
              (EhTxt(g) /\ g # arquivo) =>
                  NovaAvaliacao(g).redacao_nome # redacao_nome

====
